---- MODULE Spec2Model ----
(***************************************************************************)
(* Model of the Twilio voice skill: the webhook server                     *)
(* (scripts/webhook-server.js) with its security gate, call sessions and   *)
(* response orchestrator, and the queue worker (scripts/queue-worker.js)   *)
(* that drains the escalation queue.                                       *)
(***************************************************************************)
EXTENDS Integers, Sequences, FiniteSets, TLC

(***************************************************************************)
(* Bounds of the model.                                                    *)
(***************************************************************************)
MaxTicks == 2       \* the clock advances at most this many windows
MaxRateLimit == 2   \* configured ceilings 1..MaxRateLimit
MaxTurns == 1       \* speech turns suspended at the same time
MaxEntries == 2     \* queue entries appended in one run
MaxNotes == 1       \* voice notes saved in one run
MaxCycles == 2      \* drain cycles running at the same time
MaxTail == 2        \* characters other than letters at the end of a reply

(***************************************************************************)
(* JavaScript's undefined: a missing request field, an unset property.     *)
(***************************************************************************)
Undefined == "undefined"

(***************************************************************************)
(* Configuration (webhook-server.js 17-24 and the allowlist of the         *)
(* example configuration used by test-server.js).                          *)
(***************************************************************************)
maxAttempts == 3
RateWindowMs == 3600000

NumA == "+1234567890"
NumB == "+15550001111"
NumU == "+19999999999"

allowedNumbers ==
  << [number |-> NumA, pin |-> "123456", name |-> "Ana"],
     [number |-> NumB, pin |-> "654321", name |-> "Bob"] >>

menuLanguages == << [key |-> "1", lang |-> "es"], [key |-> "2", lang |-> "en"] >>
voiceNoteKey == "9"

\* config.voiceNotes (274): a configuration that sets the longest recording,
\* in seconds, to another value than the default.
voiceNotes == [maxLengthSeconds |-> 60]

(***************************************************************************)
(* Inputs of the webhook events.                                           *)
(***************************************************************************)
Sids == {"CA1", "CA2"}
Callers == {NumA, NumU}
Froms == {NumA, NumB, NumU, Undefined}
PinDigits == {"123456", "654321", "000000", Undefined}
MenuDigits == {"1", "2", "9", "5", Undefined}
Speeches == {"hello", "goodbye"}
\* An utterance the architecture document classes as a task ("investiga...").
TaskSpeech == "investiga el clima"
Slots == 1..MaxTurns

VARIABLES
  config,      \* the loaded configuration: rateLimitPerHour, GROQ_API_KEY set
  now,         \* Date.now(), in ms
  callState,   \* Map callSid -> session object
  rateLimits,  \* Map phoneNumber -> { count, resetTime }
  turns,       \* speech turns suspended in processWithAgent
  pending,     \* lines of pending-queries.jsonl
  nextId,      \* number of queue entries appended so far
  notes,       \* lines of notes.jsonl
  cycles,      \* drain cycles (processQueue calls) of the queue worker
  processed,   \* lines of processed-queries.jsonl
  sendLog,     \* history: the notifications the worker sent
  pinOk,       \* history: call ids for which a correct PIN was accepted
  lastTurn,    \* history: the speech turn that was answered last
  resp,        \* the last response sent by the webhook server
  log,         \* the console lines of the webhook server's last step
  lastPoll,    \* history: what the worker's last poll found
  langCodes,   \* history: the last getLanguageCode call made for each provider
  saving,      \* the save-voicenote handler suspended on its providers
  spoken       \* history: the last reply made fit for the <Say> verb

vars == << config, now, callState, rateLimits, turns, pending, nextId, notes,
           cycles, processed, sendLog, pinOk, lastTurn, resp, log, lastPoll,
           langCodes, saving, spoken >>

worker == << cycles, processed, sendLog, lastPoll >>

\* The state that only the language lookups, the split voice-note save and
\* the preparation of a reply's text move.
apart == << langCodes, saving, spoken >>

(***************************************************************************)
(* Maps.                                                                   *)
(***************************************************************************)
Put(map, k, v) == [x \in (DOMAIN map) \cup {k} |-> IF x = k THEN v ELSE map[x]]

\* A delete that empties the map.
DelAll(map, k) == [x \in {} |-> 0]

Del(map, k) == [x \in (DOMAIN map) \ {k} |-> map[x]]
EmptyMap == [x \in {} |-> 0]

(***************************************************************************)
(* Allowlist lookups (first match wins).                                   *)
(***************************************************************************)
Matches(phoneNumber) ==
  {i \in 1..Len(allowedNumbers) : allowedNumbers[i].number = phoneNumber}

FirstMatch(phoneNumber) ==
  CHOOSE i \in Matches(phoneNumber) : \A j \in Matches(phoneNumber) : i <= j

\* A gate that only asks for a caller id.
isAllowedAnyCaller(phoneNumber) == phoneNumber # Undefined

isAllowed(phoneNumber) == Matches(phoneNumber) # {}

getPin(phoneNumber) ==
  IF Matches(phoneNumber) = {} THEN Undefined
  ELSE allowedNumbers[FirstMatch(phoneNumber)].pin

\* A lookup that never finds the entry.
getNameGuest(phoneNumber) == "Guest"

getName(phoneNumber) ==
  IF Matches(phoneNumber) = {} THEN "Guest"
  ELSE allowedNumbers[FirstMatch(phoneNumber)].name

(***************************************************************************)
(* checkRateLimit: the verdict and the table it leaves behind.             *)
(***************************************************************************)
\* The ceiling compared with > instead of >=.
checkRateLimitOffByOne(limits, phoneNumber, t) ==
  IF phoneNumber \notin DOMAIN limits \/ t > limits[phoneNumber].resetTime
  THEN [ok |-> TRUE,
        limits |-> Put(limits, phoneNumber,
                       [count |-> 1, resetTime |-> t + RateWindowMs])]
  ELSE IF limits[phoneNumber].count > config.rateLimitPerHour
  THEN [ok |-> FALSE, limits |-> limits]
  ELSE [ok |-> TRUE,
        limits |-> Put(limits, phoneNumber,
                       [count |-> limits[phoneNumber].count + 1,
                        resetTime |-> limits[phoneNumber].resetTime])]

\* The window taken as lapsed at its reset time already.
checkRateLimitLapseAtReset(limits, phoneNumber, t) ==
  IF phoneNumber \notin DOMAIN limits \/ t >= limits[phoneNumber].resetTime
  THEN [ok |-> TRUE,
        limits |-> Put(limits, phoneNumber,
                       [count |-> 1, resetTime |-> t + RateWindowMs])]
  ELSE IF limits[phoneNumber].count >= config.rateLimitPerHour
  THEN [ok |-> FALSE, limits |-> limits]
  ELSE [ok |-> TRUE,
        limits |-> Put(limits, phoneNumber,
                       [count |-> limits[phoneNumber].count + 1,
                        resetTime |-> limits[phoneNumber].resetTime])]

\* A call that passes within the window is not counted.
checkRateLimitNoCount(limits, phoneNumber, t) ==
  IF phoneNumber \notin DOMAIN limits \/ t > limits[phoneNumber].resetTime
  THEN [ok |-> TRUE,
        limits |-> Put(limits, phoneNumber,
                       [count |-> 1, resetTime |-> t + RateWindowMs])]
  ELSE IF limits[phoneNumber].count >= config.rateLimitPerHour
  THEN [ok |-> FALSE, limits |-> limits]
  ELSE [ok |-> TRUE, limits |-> limits]

checkRateLimit(limits, phoneNumber, t) ==
  IF phoneNumber \notin DOMAIN limits \/ t > limits[phoneNumber].resetTime
  THEN [ok |-> TRUE,
        limits |-> Put(limits, phoneNumber,
                       [count |-> 1, resetTime |-> t + RateWindowMs])]
  ELSE IF limits[phoneNumber].count >= config.rateLimitPerHour
  THEN [ok |-> FALSE, limits |-> limits]
  ELSE [ok |-> TRUE,
        limits |-> Put(limits, phoneNumber,
                       [count |-> limits[phoneNumber].count + 1,
                        resetTime |-> limits[phoneNumber].resetTime])]

(***************************************************************************)
(* Responses: the verbs of the TwiML document a handler returns.           *)
(*   say      the first spoken message                                     *)
(*   gather   "none", "pin" (6 digits -> /voice/verify-pin), "menu"        *)
(*            (1 digit -> /voice/select-language) or "speech"              *)
(*            (-> /voice/process-speech)                                   *)
(*   record   a <Record> verb (-> /voice/save-voicenote)                   *)
(*   maxLength the maxLength attribute of the <Record> verb, 0 without one *)
(*   remaining the number of attempts the message announces as remaining,  *)
(*            0 when it announces none                                     *)
(*   redirect a <Redirect> verb                                            *)
(*   hangup   a <Hangup/> verb                                             *)
(***************************************************************************)
Twiml(route, sid, say, gather, record, redirect, hangup) ==
  [route |-> route, sid |-> sid, say |-> say, gather |-> gather,
   record |-> record, maxLength |-> 0, remaining |-> 0,
   redirect |-> redirect, hangup |-> hangup]

\* A session error that asks for the PIN again.
SessionErrorReprompt(route, sid) ==
  Twiml(route, sid, "Session error. Goodbye.", "pin", FALSE, FALSE, TRUE)

SessionError(route, sid) ==
  Twiml(route, sid, "Session error. Goodbye.", "none", FALSE, FALSE, TRUE)

NoResp == Twiml("none", Undefined, "", "none", FALSE, FALSE, FALSE)

\* A failed handler answered without any verb.
ServerErrorBare(route, sid) == Twiml(route, sid, "", "none", FALSE, FALSE, FALSE)

\* The server's catch (598-602): the reply to a handler that threw.
ServerError(route, sid) ==
  Twiml(route, sid, "An error occurred. Goodbye.", "none", FALSE, FALSE, TRUE)

(***************************************************************************)
(* Console output: a line is the action it names, the strings it carries   *)
(* and the numbers it carries.                                             *)
(***************************************************************************)
LogLine(action, strs, nums) == [action |-> action, strs |-> strs, nums |-> nums]

\* logCall (111-114): one JSON line with the action and the data's fields.
logCall(action, strs, nums) == << LogLine(action, strs, nums) >>

\* console.log of the allowlist array (156): every field of every entry.
AllowlistDump ==
  UNION {{allowedNumbers[i].number, allowedNumbers[i].pin, allowedNumbers[i].name} :
           i \in 1..Len(allowedNumbers)}

(***************************************************************************)
(* The messages of processWithAgent, by session language.                  *)
(***************************************************************************)
NotConfiguredMsg(lang) ==
  IF lang = "es" THEN "El agente no esta configurado."
  ELSE "The agent is not configured."

ReplyMsg == "<reply>"

ApologyReplyMsg(lang) ==
  IF lang = "es" THEN "Disculpa la espera. <reply>"
  ELSE "Sorry for the wait. <reply>"

PromiseMsg(lang) ==
  IF lang = "es" THEN "Te envio la respuesta por mensaje de texto en unos minutos."
  ELSE "I'll send you the answer via text message in a few minutes."

ErrorMsg(lang) ==
  IF lang = "es" THEN "Lo siento, hubo un error. Intenta mas tarde."
  ELSE "Sorry, there was an error. Try again later."

(***************************************************************************)
(* Speech turns: a turn holds a reference to the session object it looked  *)
(* up.  While that object is the one in callState the turn reads it there  *)
(* (live); when the entry is deleted or replaced the object lives on,      *)
(* unchanged, in the turn (obj).                                           *)
(*   o1    outcome of the first language-model request                     *)
(*   reqs  language-model requests issued so far                           *)
(***************************************************************************)
NoObject == [callerNumber |-> Undefined, name |-> Undefined, lang |-> Undefined]

\* What a suspended turn still reads of its session object (467-479, 548-574).
Object(session) ==
  [callerNumber |-> session.callerNumber, name |-> session.name,
   lang |-> session.lang]

IdleTurn ==
  [pc |-> "idle", sid |-> Undefined, speech |-> Undefined,
   live |-> FALSE, obj |-> NoObject, o1 |-> "none", reqs |-> 0]

\* The record of an answered turn: the outcomes of its requests (o1, o2),
\* the outcome of the queue write, the entries it appended, the session
\* language it read and the text it spoke.
NoTurn ==
  [sid |-> Undefined, speech |-> Undefined, o1 |-> "none", o2 |-> "none",
   reqs |-> 0, write |-> "none", appended |-> 0, lang |-> Undefined, say |-> ""]

Detach(ts, sid, object) ==
  [k \in Slots |->
     IF ts[k].pc # "idle" /\ ts[k].sid = sid /\ ts[k].live
     THEN [ts[k] EXCEPT !.live = FALSE, !.obj = Object(object)]
     ELSE ts[k]]

TurnState(k) ==
  IF turns[k].live THEN Object(callState[turns[k].sid]) ELSE turns[k].obj

InFlight == {k \in Slots : turns[k].pc # "idle"}

FreeSlot == CHOOSE k \in Slots \ InFlight : \A j \in Slots \ InFlight : k <= j

Workers == 1..MaxCycles

IdleCycle == [pc |-> "idle", queries |-> << >>, i |-> 0]

IdleSave ==
  [pc |-> "idle", sid |-> Undefined, caller |-> Undefined,
   duration |-> Undefined, name |-> Undefined]

FIRST_TIMEOUT_MS == 5000
SECOND_TIMEOUT_MS == 5000

\* The time, in ms, after which each kind of provider request is aborted
\* by the program; 0 for a fetch issued without a signal: the language
\* model in a call (callGroq, 483-484), the re-run of the drain
\* (processQuery, 422), the notification senders (252, 299, 338, 371), the
\* download of a recording (335) and its transcription (357).
RequestTimeoutMs ==
  [call1 |-> FIRST_TIMEOUT_MS, call2 |-> SECOND_TIMEOUT_MS, rerun |-> 0,
   send |-> 0, download |-> 0, transcription |-> 0]

\* The provider requests some handler or drain cycle is waiting for.
PendingRequests ==
  {r \in DOMAIN RequestTimeoutMs :
     \/ r = "call1" /\ \E k \in Slots : turns[k].pc = "attempt1"
     \/ r = "call2" /\ \E k \in Slots : turns[k].pc = "attempt2"
     \/ r = "rerun" /\ \E c \in Workers : cycles[c].pc = "llm"
     \/ r = "send" /\ \E c \in Workers : cycles[c].pc = "send"
     \/ r \in {"download", "transcription"} /\ saving.pc = "download"}

\* The senders of the worker (236-394) and the response methods a
\* configuration may name: none, one of the senders, one that is no sender.
senders == {"gateway", "telegram", "sms", "webhook"}
Methods == {Undefined, "gateway", "fax"}

Configs ==
  [rateLimitPerHour : 1..MaxRateLimit, groqApiKey : BOOLEAN,
   method : {Undefined}]

\* The configurations of the worker: asyncResponse.method varies.
QueueConfigs ==
  {[c EXCEPT !.method = m] : c \in {d \in Configs : d.groqApiKey},
                             m \in Methods}

(***************************************************************************)
(* getLanguageCode (stt-providers.js 193-210).                             *)
(***************************************************************************)
ProviderNames == {"deepgram", "groq", "twilio", "whisper", Undefined}
Langs == {"es", "en", "fr", Undefined}

langMap ==
  [deepgram |-> [es |-> "es", en |-> "en-US"],
   groq |-> [es |-> "es", en |-> "en"],
   twilio |-> [es |-> "es-US", en |-> "en-US"]]

\* langMap[providerName]?.[lang] || lang
getLanguageCode(providerName, lang) ==
  IF providerName \in DOMAIN langMap /\ lang \in DOMAIN langMap[providerName]
  THEN langMap[providerName][lang]
  ELSE lang

(***************************************************************************)
(* The text of a reply on its way into the <Say> verb (433):               *)
(* escapeXml(cleanForTTS(agentResponse)).substring(0, 1000).  A text is a  *)
(* sequence of runs, a run being n >= 1 copies of one character, no two    *)
(* neighbouring runs of the same character.                                *)
(***************************************************************************)
SayLimit == 1000

Run(c, n) == [c |-> c, n |-> n]

Specials == {"&", "<", ">", "\"", "'"}

\* The replacements of escapeXml (119-124).
Entity(c) ==
  CASE c = "&" -> << "&", "a", "m", "p", ";" >>
    [] c = "<" -> << "&", "l", "t", ";" >>
    [] c = ">" -> << "&", "g", "t", ";" >>
    [] c = "\"" -> << "&", "q", "u", "o", "t", ";" >>
    [] c = "'" -> << "&", "a", "p", "o", "s", ";" >>

RECURSIVE Repeat(_, _)
Repeat(text, n) == IF n = 0 THEN << >> ELSE text \o Repeat(text, n - 1)

RECURSIVE Length(_)
Length(text) ==
  IF text = << >> THEN 0 ELSE Head(text).n + Length(Tail(text))

\* cleanForTTS (128-147) on texts of letters, blanks and the characters of
\* Specials, which hold none of its markdown markers and no line break:
\* runs of blanks shrink to one blank (145), then the text is trimmed (146).
cleanForTTS(text) ==
  LET one == [j \in 1..Len(text) |->
                IF text[j].c = " " THEN Run(" ", 1) ELSE text[j]]
      from == IF one # << >> /\ one[1].c = " " THEN 2 ELSE 1
      to == IF Len(one) >= from /\ one[Len(one)].c = " "
            THEN Len(one) - 1 ELSE Len(one)
  IN  SubSeq(one, from, to)

\* escapeXml (117-125).  The '&' is replaced first, so the '&' of the
\* other entities is not replaced again: every character of the text is
\* replaced once.
RECURSIVE escapeXml(_)
escapeXml(text) ==
  IF text = << >> THEN << >>
  ELSE LET r == Head(text)
           entity == [j \in 1..Len(Entity(r.c)) |-> Run(Entity(r.c)[j], 1)]
       IN  (IF r.c \in Specials THEN Repeat(entity, r.n) ELSE << r >>)
             \o escapeXml(Tail(text))

\* String.prototype.substring(0, end).
RECURSIVE substring(_, _)
substring(text, end) ==
  IF text = << >> \/ end = 0 THEN << >>
  ELSE IF Head(text).n <= end
  THEN << Head(text) >> \o substring(Tail(text), end - Head(text).n)
  ELSE << Run(Head(text).c, end) >>

safeResponse(agentResponse) ==
  substring(escapeXml(cleanForTTS(agentResponse)), SayLimit)

\* The replies of the language model: nothing, or letters followed by up
\* to MaxTail other characters, short or about as long as the limit.
TailChars == Specials \cup {" "}
Tails ==
  {<< >>} \cup {<< Run(c, 1) >> : c \in TailChars}
    \cup {<< Run(p[1], 1), Run(p[2], 1) >> :
            p \in {q \in TailChars \X TailChars : q[1] # q[2]}}
Fills == {MaxTail} \cup ((SayLimit - 2 * MaxTail)..SayLimit)
Replies == {<< >>} \cup {<< Run("a", n) >> \o t : n \in Fills, t \in Tails}

NoSay == [reply |-> << >>, text |-> << >>]

NoLookup == [lang |-> "none", code |-> "none"]

Init ==
  /\ config \in Configs
  /\ now = 0
  /\ callState = EmptyMap
  /\ rateLimits = EmptyMap
  /\ turns = [k \in Slots |-> IdleTurn]
  /\ pending = << >>
  /\ nextId = 0
  /\ notes = << >>
  /\ cycles = [c \in Workers |-> IdleCycle]
  /\ processed = << >>
  /\ sendLog = << >>
  /\ pinOk = {}
  /\ lastTurn = NoTurn
  /\ resp = NoResp
  /\ log = << >>
  /\ lastPoll = "none"
  /\ langCodes = [p \in ProviderNames |-> NoLookup]
  /\ saving = IdleSave
  /\ spoken = NoSay

(***************************************************************************)
(* Time passes.                                                            *)
(***************************************************************************)
Tick ==
  /\ now + RateWindowMs <= MaxTicks * RateWindowMs
  /\ now' = now + RateWindowMs
  /\ UNCHANGED << worker, config, apart, callState, rateLimits, turns,
                  pending, nextId, notes, pinOk, lastTurn, resp, log >>

(***************************************************************************)
(* POST /voice/incoming                                                    *)
(***************************************************************************)
Incoming(callSid, callerNumber) ==
  LET rl == checkRateLimit(rateLimits, callerNumber, now) IN
  /\ rateLimits' = rl.limits
  /\ IF ~rl.ok
     THEN /\ resp' = Twiml("incoming", callSid,
                           "Too many calls. Please try again later.",
                           "none", FALSE, FALSE, TRUE)
          /\ UNCHANGED << callState, turns >>
     ELSE IF ~isAllowed(callerNumber)
     THEN /\ resp' = Twiml("incoming", callSid,
                           "This number is not authorized to access this service.",
                           "none", FALSE, FALSE, TRUE)
          /\ UNCHANGED << callState, turns >>
     ELSE /\ callState' = Put(callState, callSid,
                              [attempts |-> 0, callerNumber |-> callerNumber,
                               name |-> getName(callerNumber),
                               lang |-> Undefined, mode |-> Undefined])
          /\ turns' = IF callSid \in DOMAIN callState
                      THEN Detach(turns, callSid, callState[callSid]) ELSE turns
          /\ resp' = Twiml("incoming", callSid,
                           "Welcome. Please enter your 6 digit PIN.",
                           "pin", FALSE, FALSE, TRUE)
  /\ log' = << LogLine("raw body", {callerNumber, callSid}, {}),
               LogLine("caller", {callerNumber}, {}),
               LogLine("allowed", AllowlistDump, {}) >>
             \o logCall("incoming", {callerNumber, callSid}, {})
             \o (IF ~rl.ok THEN logCall("rate_limited", {callerNumber}, {})
                 ELSE IF ~isAllowed(callerNumber)
                 THEN logCall("unauthorized", {callerNumber}, {})
                 ELSE << >>)
  /\ UNCHANGED << worker, config, apart, now, pending, nextId, notes, pinOk,
                  lastTurn >>

(***************************************************************************)
(* POST /voice/verify-pin                                                  *)
(***************************************************************************)
\* The comparison and the attempt count (203-205, 236-239).
\* The attempt count checked before the comparison.
PinVerdictCountFirst(attempts, enteredPin, callerNumber) ==
  IF attempts + 1 >= maxAttempts THEN "max"
  ELSE IF enteredPin = getPin(callerNumber) THEN "ok"
  ELSE "retry"

\* The maximum compared with > instead of >=.
PinVerdictOneMore(attempts, enteredPin, callerNumber) ==
  IF enteredPin = getPin(callerNumber) THEN "ok"
  ELSE IF attempts + 1 > maxAttempts THEN "max"
  ELSE "retry"

PinVerdict(attempts, enteredPin, callerNumber) ==
  IF enteredPin = getPin(callerNumber) THEN "ok"
  ELSE IF attempts + 1 >= maxAttempts THEN "max"
  ELSE "retry"

VerifyPin(callSid, enteredPin, callerNumber) ==
  IF callSid \notin DOMAIN callState
  THEN /\ resp' = SessionError("verify-pin", callSid)
       /\ log' = << >>
       /\ UNCHANGED << worker, config, apart, now, callState, rateLimits,
                       turns, pending, nextId, notes, pinOk, lastTurn >>
  ELSE LET verdict == PinVerdict(callState[callSid].attempts, enteredPin, callerNumber)
           attempts == callState[callSid].attempts + 1
       IN
       /\ CASE verdict = "ok" ->
                 /\ resp' = Twiml("verify-pin", callSid, "Para espanol, presione uno.",
                                  "menu", FALSE, TRUE, FALSE)
                 /\ pinOk' = pinOk \cup {callSid}
                 /\ log' = logCall("authenticated",
                                   {callerNumber, callState[callSid].name}, {})
                 /\ UNCHANGED << callState, turns >>
            [] verdict = "max" ->
                 /\ callState' = Del(callState, callSid)
                 /\ turns' = Detach(turns, callSid, callState[callSid])
                 /\ resp' = Twiml("verify-pin", callSid,
                                  "Too many failed attempts. Goodbye.",
                                  "none", FALSE, FALSE, TRUE)
                 /\ pinOk' = pinOk
                 /\ log' = logCall("wrong_pin", {callerNumber}, {attempts})
                            \o logCall("max_attempts", {callerNumber}, {})
            [] OTHER ->
                 /\ callState' = [callState EXCEPT ![callSid].attempts = attempts]
                 /\ turns' = turns
                 /\ resp' = [Twiml("verify-pin", callSid,
                                   "Incorrect PIN. Please try again.",
                                   "pin", FALSE, FALSE, TRUE)
                             EXCEPT !.remaining = maxAttempts - attempts]
                 /\ pinOk' = pinOk
                 /\ log' = logCall("wrong_pin", {callerNumber}, {attempts})
       /\ UNCHANGED << worker, config, apart, now, rateLimits, pending,
                       nextId, notes, lastTurn >>

(***************************************************************************)
(* POST /voice/select-language                                             *)
(***************************************************************************)
\* A menu whose fallback is the first language of the list.
MenuLangDefaultFirst(digit) ==
  LET hits == {i \in 1..Len(menuLanguages) : menuLanguages[i].key = digit} IN
  IF hits = {} THEN menuLanguages[1].lang
  ELSE menuLanguages[CHOOSE i \in hits : \A j \in hits : i <= j].lang

MenuLang(digit) ==
  LET hits == {i \in 1..Len(menuLanguages) : menuLanguages[i].key = digit} IN
  IF hits = {} THEN "en"
  ELSE menuLanguages[CHOOSE i \in hits : \A j \in hits : i <= j].lang

\* A recording length that ignores the configuration.
recordMaxLengthDefault(vnConfig) == 120

\* vnConfig.maxLengthSeconds || 120 (275); an option that is not set reads
\* as 0 here.
recordMaxLength(vnConfig) ==
  IF vnConfig.maxLengthSeconds = 0 THEN 120 ELSE vnConfig.maxLengthSeconds

SelectLanguage(callSid, digit) ==
  IF callSid \notin DOMAIN callState
  THEN /\ resp' = SessionError("select-language", callSid)
       /\ log' = << >>
       /\ UNCHANGED << worker, config, apart, now, callState, rateLimits,
                       turns, pending, nextId, notes, pinOk, lastTurn >>
  ELSE IF digit = voiceNoteKey
  THEN /\ callState' = [callState EXCEPT ![callSid].mode = "voicenote"]
       /\ resp' = [Twiml("select-language", callSid,
                         "Please leave your voice note after the beep.",
                         "none", TRUE, FALSE, TRUE)
                     EXCEPT !.maxLength = recordMaxLength(voiceNotes)]
       /\ log' = logCall("voice_note_start", {callState[callSid].name, callSid}, {})
       /\ UNCHANGED << worker, config, apart, now, rateLimits, turns, pending,
                       nextId, notes, pinOk, lastTurn >>
  ELSE /\ callState' = [callState EXCEPT ![callSid].lang = MenuLang(digit)]
       /\ resp' = Twiml("select-language", callSid,
                        IF MenuLang(digit) = "es"
                        THEN "Bienvenido. Estas conectado."
                        ELSE "Welcome. You are connected.",
                        "speech", FALSE, FALSE, TRUE)
       /\ log' = logCall("language_selected",
                         {MenuLang(digit), callState[callSid].name}, {})
       /\ UNCHANGED << worker, config, apart, now, rateLimits, turns, pending,
                       nextId, notes, pinOk, lastTurn >>

(***************************************************************************)
(* POST /voice/save-voicenote.  The handler only reads the session (its    *)
(* name); its provider waits are folded into one step whose outcomes are   *)
(* the inputs: download and audio write, transcription, the notes.jsonl    *)
(* append and the transcript file write.                                   *)
(*   text   what the transcription request gave: the text of an ok         *)
(*          response ("" when it has none), HttpError for a response that   *)
(*          is not ok, Rejected when fetch or the body's json() threw      *)
(***************************************************************************)
HttpError == "http error"
Rejected == "rejected"
Transcriptions == {"", "hola", HttpError, Rejected}

ParseDuration(d) == IF d = Undefined THEN 0 ELSE 7

\* The handler from its try block on (327-410), for the session name it
\* holds: the notes file, the reply and the console lines it leaves.
SavePipeline(name, CallSid, callerNumber, RecordingDuration, dlOk, text, noteOk, txtOk) ==
  LET asked == dlOk /\ config.groqApiKey
      threw == asked /\ text = Rejected
      transcription == IF asked /\ text \notin {HttpError, Rejected}
                       THEN text ELSE ""
      voiceNote == [id |-> "RE1", callSid |-> CallSid,
                    caller |-> callerNumber,
                    name |-> name,
                    transcription |-> transcription,
                    duration |-> ParseDuration(RecordingDuration),
                    status |-> IF transcription # "" THEN "transcribed"
                               ELSE "pending"]
      saved == dlOk /\ ~threw /\ noteOk /\ (transcription = "" \/ txtOk)
  IN [notes |-> IF dlOk /\ ~threw /\ noteOk THEN Append(notes, voiceNote)
                ELSE notes,
      resp |-> Twiml("save-voicenote", CallSid,
                     IF saved
                     THEN "Your voice note has been saved and transcribed."
                     ELSE "There was an error saving it.",
                     "none", FALSE, FALSE, TRUE),
      log |-> (IF dlOk THEN logCall("voice_note_downloaded", {}, {})
               ELSE << >>)
              \o (IF asked /\ text \notin {HttpError, Rejected}
                  THEN logCall("voice_note_transcribed", {transcription}, {})
                  ELSE IF asked /\ text = HttpError
                  THEN logCall("voice_note_transcribe_error", {}, {500})
                  ELSE IF dlOk /\ ~config.groqApiKey
                  THEN logCall("voice_note_no_groq_key", {}, {})
                  ELSE << >>)
              \o (IF saved THEN logCall("voice_note_saved", {"RE1"}, {})
                  ELSE logCall("voice_note_error", {}, {}))]

SaveVoicenote(CallSid, callerNumber, RecordingDuration, dlOk, text, noteOk, txtOk) ==
  IF CallSid \notin DOMAIN callState
  THEN /\ resp' = SessionError("save-voicenote", CallSid)
       /\ log' = << >>
       /\ UNCHANGED << worker, config, apart, now, callState, rateLimits,
                       turns, pending, nextId, notes, pinOk, lastTurn >>
  ELSE /\ Len(notes) < MaxNotes
       /\ LET done == SavePipeline(callState[CallSid].name, CallSid, callerNumber,
                                   RecordingDuration, dlOk, text, noteOk, txtOk)
          IN /\ notes' = done.notes
             /\ resp' = done.resp
             /\ log' = logCall("voice_note_processing",
                               {"RE1", callState[CallSid].name}, {})
                        \o done.log
       /\ UNCHANGED << worker, config, apart, now, callState, rateLimits,
                       turns, pending, nextId, pinOk, lastTurn >>

\* The same handler in the two steps its first await (335) divides it into:
\* the session lookup, and the pipeline once the providers have answered.
\* The suspended handler keeps the session object it looked up, of which
\* it reads the name.
SaveStart(CallSid, callerNumber, RecordingDuration) ==
  IF CallSid \notin DOMAIN callState
  THEN /\ resp' = SessionError("save-voicenote", CallSid)
       /\ log' = << >>
       /\ UNCHANGED << worker, config, apart, now, callState, rateLimits, turns,
                       pending, nextId, notes, pinOk, lastTurn >>
  ELSE /\ saving.pc = "idle"
       /\ Len(notes) < MaxNotes
       /\ saving' = [pc |-> "download", sid |-> CallSid, caller |-> callerNumber,
                     duration |-> RecordingDuration,
                     name |-> callState[CallSid].name]
       /\ log' = logCall("voice_note_processing",
                         {"RE1", callState[CallSid].name}, {})
       /\ UNCHANGED << worker, config, langCodes, spoken, now, callState, rateLimits,
                       turns, pending, nextId, notes, pinOk, lastTurn, resp >>

SaveEnd(dlOk, text, noteOk, txtOk) ==
  /\ saving.pc = "download"
  /\ LET done == SavePipeline(saving.name, saving.sid, saving.caller,
                              saving.duration, dlOk, text, noteOk, txtOk)
     IN /\ notes' = done.notes
        /\ resp' = done.resp
        /\ log' = done.log
  /\ saving' = IdleSave
  /\ UNCHANGED << worker, config, langCodes, spoken, now, callState, rateLimits, turns,
                  pending, nextId, pinOk, lastTurn >>

(***************************************************************************)
(* POST /voice/process-speech and processWithAgent.                        *)
(***************************************************************************)
\* A pattern that knows only the Spanish farewells.
IsGoodbyeSpanishOnly(speech) == speech \in {"adios"}

IsGoodbye(speech) == speech \in {"goodbye"}

\* The handler's tail (430-451): speak the agent's text; on goodbye delete
\* the entry of callSid and hang up, otherwise listen again.
Finish(callSid, speech, text, record) ==
  /\ lastTurn' = [record EXCEPT !.say = text]
  /\ IF IsGoodbye(speech)
     THEN /\ callState' = Del(callState, callSid)
          /\ resp' = Twiml("process-speech", callSid, text, "none", FALSE, FALSE, TRUE)
     ELSE /\ callState' = callState
          /\ resp' = Twiml("process-speech", callSid, text, "speech", FALSE, FALSE, TRUE)

ProcessSpeech(callSid, speech) ==
  IF callSid \notin DOMAIN callState
  THEN /\ resp' = SessionError("process-speech", callSid)
       /\ log' = << >>
       /\ UNCHANGED << worker, config, apart, now, callState, rateLimits,
                       turns, pending, nextId, notes, pinOk, lastTurn >>
  ELSE IF ~config.groqApiKey
  THEN /\ Finish(callSid, speech, NotConfiguredMsg(callState[callSid].lang),
                 [NoTurn EXCEPT !.sid = callSid, !.speech = speech,
                                !.lang = callState[callSid].lang])
       /\ turns' = IF IsGoodbye(speech)
                   THEN Detach(turns, callSid, callState[callSid]) ELSE turns
       /\ log' = logCall("speech_input", {speech, callState[callSid].lang}, {})
                  \o logCall("agent_error", {"GROQ_API_KEY not configured"}, {})
                  \o logCall("agent_response",
                              {NotConfiguredMsg(callState[callSid].lang)}, {})
       /\ UNCHANGED << worker, config, apart, now, rateLimits, pending,
                       nextId, notes, pinOk >>
  ELSE /\ InFlight # Slots
       /\ nextId + Cardinality(InFlight) < MaxEntries
       /\ turns' = [turns EXCEPT ![FreeSlot] =
                      [pc |-> "attempt1", sid |-> callSid, speech |-> speech,
                       live |-> TRUE, obj |-> NoObject, o1 |-> "none", reqs |-> 1]]
       /\ log' = logCall("speech_input", {speech, callState[callSid].lang}, {})
                  \o logCall("agent_request", {speech, callState[callSid].name}, {})
                  \o logCall("agent_attempt", {}, {1})
       /\ UNCHANGED << worker, config, apart, now, callState, rateLimits,
                       pending, nextId, notes, pinOk, lastTurn, resp >>

Outcomes == {"reply", "noreply", "timeout", "error"}

\* The turn's record once it is answered, and the turns left suspended.
Answered(k, o1, o2, write, appended) ==
  [sid |-> turns[k].sid, speech |-> turns[k].speech, o1 |-> o1, o2 |-> o2,
   reqs |-> turns[k].reqs, write |-> write, appended |-> appended,
   lang |-> TurnState(k).lang, say |-> ""]

Rest(k) ==
  LET ts == [turns EXCEPT ![k] = IdleTurn] IN
  IF IsGoodbye(turns[k].speech) /\ turns[k].sid \in DOMAIN callState
  THEN Detach(ts, turns[k].sid, callState[turns[k].sid]) ELSE ts

\* A network error taken for a timeout.
ShouldRetryOnError(outcome) == outcome \in {"timeout", "error"}

\* A missing reply taken for a timeout.
ShouldRetryOnMissing(outcome) == outcome \in {"timeout", "noreply"}

\* Whether the first result leads to the second attempt (534).
ShouldRetry(outcome) == outcome = "timeout"

\* The first callGroq returns (526-531), and the non-timeout failure (570-574).
\* userMessage.substring (535) throws on an utterance that is undefined: the
\* handler ends there and the server's catch answers.
Groq1(k, outcome) ==
  /\ turns[k].pc = "attempt1"
  /\ IF outcome = "reply"
     THEN /\ Finish(turns[k].sid, turns[k].speech, ReplyMsg,
                    Answered(k, outcome, "none", "none", 0))
          /\ turns' = Rest(k)
          /\ log' = logCall("agent_response", {ReplyMsg}, {1})
                     \o logCall("agent_response", {ReplyMsg}, {})
     ELSE IF ShouldRetry(outcome) /\ turns[k].speech = Undefined
     THEN /\ turns' = [turns EXCEPT ![k] = IdleTurn]
          /\ resp' = ServerError("process-speech", turns[k].sid)
          /\ lastTurn' = [Answered(k, outcome, "none", "none", 0)
                            EXCEPT !.say = resp'.say]
          /\ log' = << LogLine("Error", {"TypeError"}, {}) >>
          /\ UNCHANGED callState
     ELSE IF ShouldRetry(outcome)
     THEN /\ turns' = [turns EXCEPT ![k].pc = "attempt2", ![k].o1 = outcome,
                                    ![k].reqs = turns[k].reqs + 1]
          /\ log' = logCall("agent_first_timeout", {turns[k].speech}, {})
                     \o logCall("agent_attempt", {}, {2})
          /\ UNCHANGED << callState, lastTurn, resp >>
     ELSE /\ Finish(turns[k].sid, turns[k].speech, ErrorMsg(TurnState(k).lang),
                    Answered(k, outcome, "none", "none", 0))
          /\ turns' = Rest(k)
          /\ log' = logCall("agent_error", {outcome}, {})
                     \o logCall("agent_response", {ErrorMsg(TurnState(k).lang)}, {})
  /\ UNCHANGED << worker, config, apart, now, rateLimits, pending, nextId,
                  notes, pinOk >>

\* A failed write that is not reported to the caller.
queueSwallowsError(file, id, query, writeOk) ==
  IF writeOk
  THEN [queued |-> TRUE,
        file |-> Append(file, [id |-> id, message |-> query.message,
                               lang |-> query.lang,
                               callerNumber |-> query.callerNumber,
                               callerName |-> query.callerName])]
  ELSE [queued |-> TRUE, file |-> file]

\* queueForAsyncProcessing (42-61): the line appended to the pending file
\* and the value returned; a failed write is caught and returns false.
queueForAsyncProcessing(file, id, query, writeOk) ==
  IF writeOk
  THEN [queued |-> TRUE,
        file |-> Append(file, [id |-> id, message |-> query.message,
                               lang |-> query.lang,
                               callerNumber |-> query.callerNumber,
                               callerName |-> query.callerName])]
  ELSE [queued |-> FALSE, file |-> file]

\* The second callGroq returns (543-574): a reply, or the queue fallback.
Groq2(k, outcome, writeOk) ==
  /\ turns[k].pc = "attempt2"
  /\ IF outcome = "reply"
     THEN /\ Finish(turns[k].sid, turns[k].speech, ApologyReplyMsg(TurnState(k).lang),
                    Answered(k, turns[k].o1, outcome, "none", 0))
          /\ log' = logCall("agent_response", {ReplyMsg}, {2})
                     \o logCall("agent_response",
                                 {ApologyReplyMsg(TurnState(k).lang)}, {})
          /\ UNCHANGED << pending, nextId >>
     ELSE LET q == queueForAsyncProcessing(
                     pending, nextId + 1,
                     [message |-> turns[k].speech, lang |-> TurnState(k).lang,
                      callerNumber |-> TurnState(k).callerNumber,
                      callerName |-> TurnState(k).name], writeOk)
          IN /\ pending' = q.file
             /\ nextId' = nextId + (Len(q.file) - Len(pending))
             /\ Finish(turns[k].sid, turns[k].speech,
                       IF q.queued THEN PromiseMsg(TurnState(k).lang)
                       ELSE ErrorMsg(TurnState(k).lang),
                       Answered(k, turns[k].o1, outcome,
                                IF writeOk THEN "ok" ELSE "failed",
                                Len(q.file) - Len(pending)))
             /\ log' = logCall("agent_queue_fallback", {turns[k].speech}, {})
                        \o (IF q.queued
                            THEN logCall("query_queued", {turns[k].speech}, {nextId + 1})
                            ELSE logCall("queue_error", {}, {})
                                 \o logCall("agent_error", {outcome}, {}))
                        \o logCall("agent_response", {resp'.say}, {})
  /\ turns' = Rest(k)
  /\ UNCHANGED << worker, config, apart, now, rateLimits, notes, pinOk >>

(***************************************************************************)
(* The queue worker (queue-worker.js): processQueue is called at startup   *)
(* and by every tick of setInterval, whether or not an earlier call is     *)
(* still waiting.  The worker is one single-threaded process: its cycles   *)
(* interleave at their awaits only; the webhook process runs beside it, so *)
(* its appends fall between any two file operations of the worker.         *)
(***************************************************************************)
readPendingQueries == pending

WorkerBusy == \E c \in Workers : cycles[c].pc = "clear"

IdleWorkers == {c \in Workers : cycles[c].pc = "idle"}

\* The batch written last entry first.
ProcessedLinesReversed(queries) ==
  [j \in 1..Len(queries) |->
     [id |-> queries[Len(queries) + 1 - j].id,
      message |-> queries[Len(queries) + 1 - j].message,
      lang |-> queries[Len(queries) + 1 - j].lang,
      callerNumber |-> queries[Len(queries) + 1 - j].callerNumber,
      callerName |-> queries[Len(queries) + 1 - j].callerName,
      processedAt |-> now]]

\* markProcessed, first half (484-487): the processed lines of the queries.
ProcessedLines(queries) ==
  [j \in 1..Len(queries) |->
     [id |-> queries[j].id, message |-> queries[j].message,
      lang |-> queries[j].lang, callerNumber |-> queries[j].callerNumber,
      callerName |-> queries[j].callerName, processedAt |-> now]]

\* A drain that does not look at the length of what it read.
PollNoEmptyCheck(c) ==
  /\ ~WorkerBusy
  /\ c \in IdleWorkers /\ \A d \in IdleWorkers : c <= d
  /\ cycles' = [cycles EXCEPT ![c] =
                  [pc |-> "llm", queries |-> readPendingQueries, i |-> 1]]
  /\ lastPoll' = IF pending = << >> THEN "empty" ELSE "batch"
  /\ UNCHANGED << processed, sendLog, config, apart, now, callState,
                  rateLimits, turns, pending, nextId, notes, pinOk, lastTurn,
                  resp, log >>

\* processQueue up to its first await (500-511).
Poll(c) ==
  /\ ~WorkerBusy
  /\ c \in IdleWorkers /\ \A d \in IdleWorkers : c <= d
  /\ LET queries == readPendingQueries IN
     IF Len(queries) = 0
     THEN /\ UNCHANGED cycles
          /\ lastPoll' = "empty"
     ELSE /\ cycles' = [cycles EXCEPT ![c] = [pc |-> "llm", queries |-> queries, i |-> 1]]
          /\ lastPoll' = "batch"
  /\ UNCHANGED << processed, sendLog, config, apart, now, callState,
                  rateLimits, turns, pending, nextId, notes, pinOk, lastTurn,
                  resp, log >>

\* The loop moves on (508), or ends in markProcessed's append (526, 484-487).
Advance(c) ==
  IF cycles[c].i < Len(cycles[c].queries)
  THEN /\ cycles' = [cycles EXCEPT ![c].pc = "llm", ![c].i = cycles[c].i + 1]
       /\ processed' = processed
  ELSE /\ cycles' = [cycles EXCEPT ![c].pc = "clear"]
       /\ processed' = processed \o ProcessedLines(cycles[c].queries)

\* processQuery returns (511-523).
LlmResult(c, success) ==
  /\ ~WorkerBusy
  /\ cycles[c].pc = "llm"
  /\ IF success
     THEN /\ cycles' = [cycles EXCEPT ![c].pc = "send"]
          /\ processed' = processed
     ELSE Advance(c)
  /\ UNCHANGED << sendLog, config, apart, now, callState, rateLimits, turns,
                  pending, nextId, notes, pinOk, lastTurn, resp, log,
                  lastPoll >>

\* An unknown method falls back to the default sender.
sendResponseFallback(cfg) ==
  LET method == IF cfg.method = Undefined THEN "telegram" ELSE cfg.method
  IN  IF method \in senders THEN method ELSE "telegram"

\* sendResponse (399-410): the sender it calls, Undefined when the
\* configured method names none.
sendResponse(cfg) ==
  LET method == IF cfg.method = Undefined THEN "telegram" ELSE cfg.method
  IN  IF method \in senders THEN method ELSE Undefined

\* sendResponse returns (519-520): without a sender it returns false.
SendResult(c, sent) ==
  /\ ~WorkerBusy
  /\ cycles[c].pc = "send"
  /\ sendResponse(config) = Undefined => ~sent
  /\ sendLog' = Append(sendLog, [id |-> cycles[c].queries[cycles[c].i].id,
                                 via |-> sendResponse(config), sent |-> sent])
  /\ Advance(c)
  /\ UNCHANGED << config, apart, now, callState, rateLimits, turns, pending,
                  nextId, notes, pinOk, lastTurn, resp, log, lastPoll >>

\* markProcessed, second half (488): the pending file is truncated.
Clear(c) ==
  /\ cycles[c].pc = "clear"
  /\ pending' = << >>
  /\ cycles' = [cycles EXCEPT ![c] = IdleCycle]
  /\ UNCHANGED << processed, sendLog, config, apart, now, callState,
                  rateLimits, turns, nextId, notes, pinOk, lastTurn, resp,
                  log, lastPoll >>

(***************************************************************************)
(* The server's route lookup (578-589).  A request whose method and path   *)
(* are a key of routes goes to its handler, modelled by the actions above; *)
(* any other request is answered 404 'Not Found', which is no TwiML.       *)
(***************************************************************************)
Routes == {"incoming", "verify-pin", "select-language", "save-voicenote",
           "process-speech", "health"}

\* The path of the <Redirect> that ends the menu document (230).
MenuRedirect == "start-conversation"

NotFound(path, sid) == Twiml(path, sid, "", "none", FALSE, FALSE, FALSE)

Dispatch(path, callSid) ==
  /\ path \notin Routes
  /\ resp' = NotFound(path, callSid)
  /\ log' = << >>
  /\ UNCHANGED << worker, config, apart, now, callState, rateLimits, turns,
                  pending, nextId, notes, pinOk, lastTurn >>

\* The carrier follows the redirect of the menu: the caller pressed nothing.
MenuTimeout == resp.redirect /\ Dispatch(MenuRedirect, resp.sid)

(***************************************************************************)
(* Spec: the call state machine of one call id, every handler of the       *)
(* webhook server, for an allowlisted caller.  The language model answers  *)
(* or fails at once here; its timeouts, its missing replies and the        *)
(* failures of the voice-note files are the subject of SpecAgent.          *)
(***************************************************************************)
Next ==
  \/ Incoming("CA1", NumA)
  \/ \E d \in PinDigits, n \in Callers : VerifyPin("CA1", d, n)
  \/ \E d \in MenuDigits : SelectLanguage("CA1", d)
  \/ \E dl \in BOOLEAN :
        SaveVoicenote("CA1", NumA, "7", dl, "hola", TRUE, TRUE)
  \/ \E u \in Speeches : ProcessSpeech("CA1", u)
  \/ \E k \in Slots, o \in {"reply", "error"} : Groq1(k, o)
  \/ MenuTimeout

Spec == Init /\ [][Next]_vars

(***************************************************************************)
(* SpecGate: the security gate, inbound calls and PIN entry over time.     *)
(***************************************************************************)
NextGate ==
  \/ Tick
  \/ \E s \in Sids, n \in Callers : Incoming(s, n)
  \/ \E s \in Sids, d \in PinDigits, n \in Froms : VerifyPin(s, d, n)

SpecGate == Init /\ [][NextGate]_vars

(***************************************************************************)
(* SpecAgent: speech turns of a call that is in conversation.              *)
(***************************************************************************)
AgentStart ==
  /\ now = 0
  /\ \E l \in {"es", "en"} :
       /\ callState = Put(EmptyMap, "CA1",
                          [attempts |-> 0, callerNumber |-> NumA,
                           name |-> getName(NumA), lang |-> l, mode |-> Undefined])
       /\ resp = Twiml("select-language", "CA1",
                       IF l = "es" THEN "Bienvenido. Estas conectado."
                       ELSE "Welcome. You are connected.",
                       "speech", FALSE, FALSE, TRUE)
       /\ log = << LogLine("language_selected", {l, getName(NumA)}, {}) >>
  /\ rateLimits = Put(EmptyMap, NumA, [count |-> 1, resetTime |-> RateWindowMs])
  /\ turns = [k \in Slots |-> IdleTurn]
  /\ pending = << >>
  /\ nextId = 0
  /\ notes = << >>
  /\ cycles = [c \in Workers |-> IdleCycle]
  /\ processed = << >>
  /\ sendLog = << >>
  /\ pinOk = {"CA1"}
  /\ lastTurn = NoTurn
  /\ lastPoll = "none"
  /\ langCodes = [p \in ProviderNames |-> NoLookup]
  /\ saving = IdleSave
  /\ spoken = NoSay

InitAgent == config \in {c \in Configs : c.groqApiKey} /\ AgentStart

NextAgent ==
  \/ \E d \in MenuDigits : SelectLanguage("CA1", d)
  \/ \E dl \in BOOLEAN, t \in Transcriptions, nt \in BOOLEAN, tx \in BOOLEAN :
        SaveVoicenote("CA1", NumA, "7", dl, t, nt, tx)
  \/ \E u \in Speeches \cup {Undefined} : ProcessSpeech("CA1", u)
  \/ \E k \in Slots, o \in Outcomes : Groq1(k, o)
  \/ \E k \in Slots, o \in Outcomes, w \in BOOLEAN : Groq2(k, o, w)

SpecAgent == InitAgent /\ [][NextAgent]_vars

(***************************************************************************)
(* SpecQueue: the webhook process escalating speech turns (the caller asks *)
(* for a piece of research) while the queue worker drains the pending      *)
(* file.                                                                   *)
(***************************************************************************)
NextQueue ==
  \/ ProcessSpeech("CA1", TaskSpeech)
  \/ \E k \in Slots : Groq1(k, "timeout")
  \/ \E k \in Slots, w \in BOOLEAN : Groq2(k, "timeout", w)
  \/ \E c \in Workers : Poll(c)
  \/ \E c \in Workers, ok \in BOOLEAN : LlmResult(c, ok)
  \/ \E c \in Workers, ok \in BOOLEAN : SendResult(c, ok)
  \/ \E c \in Workers : Clear(c)

InitQueue == config \in QueueConfigs /\ AgentStart

SpecQueue == InitQueue /\ [][NextQueue]_vars

(***************************************************************************)
(* SpecLang: calls of getLanguageCode, for every provider name and         *)
(* language a caller may pass.                                             *)
(***************************************************************************)
GetLanguageCode(providerName, lang) ==
  /\ langCodes' = [langCodes EXCEPT ![providerName] =
                     [lang |-> lang, code |-> getLanguageCode(providerName, lang)]]
  /\ UNCHANGED << worker, config, saving, spoken, now, callState, rateLimits, turns,
                  pending, nextId, notes, pinOk, lastTurn, resp, log >>

\* process-speech prepares the reply for the <Say> verb (432-433).
Speak(agentResponse) ==
  /\ spoken' = [reply |-> agentResponse, text |-> safeResponse(agentResponse)]
  /\ UNCHANGED << worker, config, langCodes, saving, now, callState,
                  rateLimits, turns, pending, nextId, notes, pinOk, lastTurn,
                  resp, log >>

NextSay == \E r \in Replies : Speak(r)

SpecSay == Init /\ [][NextSay]_vars

NextLang == \E p \in ProviderNames, l \in Langs : GetLanguageCode(p, l)

SpecLang == Init /\ [][NextLang]_vars
(***************************************************************************)
(* SpecCalls: two calls in progress at the same time, both past the PIN,   *)
(* with the waits of the speech turns and of the voice-note save between   *)
(* their events.  The language model answers or fails at its first         *)
(* request here.                                                           *)
(***************************************************************************)
\* The caller number of each call: the From of its events.
FromOf == [CA1 |-> NumA, CA2 |-> NumB]

InitCalls ==
  /\ config = [rateLimitPerHour |-> MaxRateLimit, groqApiKey |-> TRUE,
               method |-> Undefined]
  /\ now = 0
  /\ callState = [s \in Sids |->
                    [attempts |-> 0, callerNumber |-> FromOf[s],
                     name |-> getName(FromOf[s]), lang |-> Undefined,
                     mode |-> Undefined]]
  /\ rateLimits = [n \in {NumA, NumB} |-> [count |-> 1, resetTime |-> RateWindowMs]]
  /\ turns = [k \in Slots |-> IdleTurn]
  /\ pending = << >>
  /\ nextId = 0
  /\ notes = << >>
  /\ cycles = [c \in Workers |-> IdleCycle]
  /\ processed = << >>
  /\ sendLog = << >>
  /\ pinOk = Sids
  /\ lastTurn = NoTurn
  /\ resp = Twiml("verify-pin", "CA2", "Para espanol, presione uno.",
                  "menu", FALSE, TRUE, FALSE)
  /\ log = logCall("authenticated", {NumB, getName(NumB)}, {})
  /\ lastPoll = "none"
  /\ langCodes = [p \in ProviderNames |-> NoLookup]
  /\ saving = IdleSave
  /\ spoken = NoSay

NextCalls ==
  \/ \E s \in Sids, d \in {"1", voiceNoteKey} : SelectLanguage(s, d)
  \/ \E s \in Sids, u \in Speeches : ProcessSpeech(s, u)
  \/ \E k \in Slots, o \in {"reply", "error"} : Groq1(k, o)
  \/ \E s \in Sids : SaveStart(s, FromOf[s], "7")
  \/ \E dl \in BOOLEAN : SaveEnd(dl, "hola", TRUE, TRUE)

SpecCalls == InitCalls /\ [][NextCalls]_vars

(***************************************************************************)
(* The claims.                                                             *)
(***************************************************************************)
TooManyCalls == "Too many calls. Please try again later."
NotAuthorized == "This number is not authorized to access this service."
TooManyAttempts == "Too many failed attempts. Goodbye."

\* The PIN the allowlist binds to a number, read off the configuration.
PinOf(n) == (CHOOSE e \in {allowedNumbers[i] : i \in 1..Len(allowedNumbers)} :
               e.number = n).pin

Listed == {allowedNumbers[i].number : i \in 1..Len(allowedNumbers)}

\* C1: a menu selection (language set), a voice-note recording (voice-note
\* mode entered, note saved) or a speech turn (utterance handed to
\* processWithAgent, turn answered) is accepted for a call id only if a
\* correct PIN was accepted for that call id before.
C1_PinBeforeMenu ==
  /\ \A s \in DOMAIN callState :
       (callState[s].lang # Undefined \/ callState[s].mode # Undefined)
         => s \in pinOk
  /\ \A i \in 1..Len(notes) : notes[i].callSid \in pinOk
  /\ \A k \in Slots : turns[k].pc # "idle" => turns[k].sid \in pinOk
  /\ lastTurn.sid # Undefined => lastTurn.sid \in pinOk

\* C2: an inbound call from a number that is not in the allowlist is
\* answered with a hangup and no PIN gather, and leaves the session store
\* as it was.
C2_UnlistedRejected ==
  [][\A s \in Sids, n \in Callers :
       (n \notin Listed /\ Incoming(s, n))
         => /\ resp'.hangup /\ resp'.gather = "none"
            /\ resp'.say \in {NotAuthorized, TooManyCalls}
            /\ callState' = callState]_vars

C2_Witness ==
  /\ resp.route = "incoming" /\ resp.say = NotAuthorized
  /\ resp.sid \notin DOMAIN callState
  /\ NumU \in DOMAIN rateLimits

\* C3: once a number's counter has reached the ceiling and the window has
\* not lapsed, an inbound call from it is answered with the too-many-calls
\* hangup, no PIN gather, and leaves the session store as it was, also for
\* an allowlisted number whose earlier calls passed the PIN.
C3_CeilingRejects ==
  [][\A s \in Sids, n \in Callers :
       (/\ n \in DOMAIN rateLimits
        /\ rateLimits[n].count >= config.rateLimitPerHour
        /\ now <= rateLimits[n].resetTime
        /\ Incoming(s, n))
         => /\ resp'.hangup /\ resp'.gather = "none" /\ resp'.say = TooManyCalls
            /\ callState' = callState]_vars

C3_Witness ==
  /\ resp.route = "incoming" /\ resp.say = TooManyCalls
  /\ NumU \notin DOMAIN rateLimits
  /\ rateLimits[NumA].count >= config.rateLimitPerHour
  /\ pinOk # {}

\* C4: on a live session of an allowlisted caller, the caller's PIN is
\* answered with the menu whatever the number of wrong attempts before it,
\* and the session stays in the store, unchanged.
C4_CorrectPinMenu ==
  [][\A s \in Sids, d \in PinDigits, n \in Froms :
       (/\ s \in DOMAIN callState
        /\ n \in Listed /\ n = callState[s].callerNumber /\ d = PinOf(n)
        /\ VerifyPin(s, d, n))
         => /\ resp'.gather = "menu" /\ resp'.route = "verify-pin" /\ resp'.sid = s
            /\ callState' = callState]_vars

C4_Witness ==
  /\ resp.route = "verify-pin" /\ resp.gather = "menu"
  /\ resp.sid \in DOMAIN callState
  /\ callState[resp.sid].attempts = maxAttempts - 1

\* C5: a wrong PIN on a live session adds one to its attempts; below the
\* maximum the session stays and the PIN is asked again; at the maximum
\* the answer is a hangup with no PIN gather and the session is removed;
\* and a callback for a call id that has no session gets the session-error
\* reply and leaves the store as it was.
C5_WrongPin ==
  [][/\ \A d \in PinDigits, n \in Froms :
          ("CA1" \in DOMAIN callState /\ resp'.route = "verify-pin"
             /\ d # getPin(n) /\ VerifyPin("CA1", d, n))
            => LET a == callState["CA1"].attempts + 1 IN
               IF a < maxAttempts
               THEN /\ "CA1" \in DOMAIN callState'
                    /\ callState'["CA1"] = [callState["CA1"] EXCEPT !.attempts = a]
                    /\ resp'.gather = "pin"
               ELSE /\ "CA1" \notin DOMAIN callState'
                    /\ resp'.hangup /\ resp'.gather = "none"
                    /\ resp'.say = TooManyAttempts
     /\ "CA1" \notin DOMAIN callState =>
          /\ \A d \in PinDigits, n \in Froms :
               VerifyPin("CA1", d, n)
                 => resp' = SessionError("verify-pin", "CA1") /\ callState' = callState
          /\ \A d \in MenuDigits :
               SelectLanguage("CA1", d)
                 => resp' = SessionError("select-language", "CA1")
                    /\ callState' = callState
          /\ \A dl \in BOOLEAN, t \in {"", "hola"} :
               SaveVoicenote("CA1", NumA, "7", dl, t, TRUE, TRUE)
                 => resp' = SessionError("save-voicenote", "CA1")
                    /\ callState' = callState
          /\ \A u \in Speeches :
               ProcessSpeech("CA1", u)
                 => resp' = SessionError("process-speech", "CA1")
                    /\ callState' = callState]_vars

C5_Witness ==
  /\ resp.route = "verify-pin" /\ resp.say = TooManyAttempts
  /\ resp.sid \notin DOMAIN callState
NonTimeout == {"noreply", "error"}

\* Whether the answered turn left its entry as the last line of the
\* pending file.
Escalated ==
  /\ lastTurn.appended = 1
  /\ lastTurn.say = PromiseMsg(lastTurn.lang)
  /\ pending # << >>
  /\ pending[Len(pending)].message = lastTurn.speech
  /\ pending[Len(pending)].lang = lastTurn.lang

NotEscalated ==
  /\ lastTurn.appended = 0
  /\ lastTurn.say = ErrorMsg(lastTurn.lang)

\* C6 (as claimed): when both language-model attempts of a turn timed out,
\* one entry was appended for the utterance and the reply is the localized
\* promise of a follow-up, whatever the outcome of the queue write.
C6_BothTimeoutsEscalate ==
  (lastTurn.o1 = "timeout" /\ lastTurn.o2 = "timeout") => Escalated

\* C6 (amended): when both language-model attempts of a turn timed out and
\* the queue write succeeded, one entry was appended for the utterance and
\* the reply is the localized promise of a follow-up; when the queue write
\* failed, no entry was appended and the reply is the localized generic
\* failure message.
C6_BothTimeoutsEscalateIfWritten ==
  (lastTurn.o1 = "timeout" /\ lastTurn.o2 = "timeout")
    => IF lastTurn.write = "ok" THEN Escalated ELSE NotEscalated

C6_Witness ==
  /\ lastTurn.o1 = "timeout" /\ lastTurn.o2 = "timeout"
  /\ lastTurn.write = "ok" /\ lastTurn.lang = "es"
  /\ Len(pending) = 1

\* C7: a turn issues at most two language-model requests, the second only
\* after the first timed out, and it is answered after the second whatever
\* the second's outcome.
C7_AtMostTwoRequests ==
  /\ \A k \in Slots :
       /\ turns[k].reqs <= 2
       /\ turns[k].reqs = 2 => turns[k].o1 = "timeout"
  /\ lastTurn.reqs <= 2
  /\ lastTurn.reqs = 2 => lastTurn.o1 = "timeout"
  /\ lastTurn.o1 # "timeout" => lastTurn.reqs <= 1 /\ lastTurn.o2 = "none"

C7_Witness ==
  /\ lastTurn.reqs = 2 /\ lastTurn.o1 = "timeout" /\ lastTurn.o2 = "error"
  /\ \A k \in Slots : turns[k].pc = "idle"

Ids(file) == {file[j].id : j \in 1..Len(file)}

\* C9: every entry appended to the pending file is in the pending file or
\* in the processed log, at every point of every interleaving of appends
\* and drain cycles.
C9_NoEntryLost ==
  \A id \in 1..nextId : id \in Ids(pending) \cup Ids(processed)

\* C10: every entry is sent at most once and is written to the processed
\* log at most once.
C10_AtMostOnce ==
  \A id \in 1..nextId :
    /\ Cardinality({j \in 1..Len(sendLog) : sendLog[j].id = id /\ sendLog[j].sent}) <= 1
    /\ Cardinality({j \in 1..Len(processed) : processed[j].id = id}) <= 1
\* Whether this step appended the batch of cycle c to the processed log:
\* the entries it read, in the order read, each with a processedAt stamp.
MovedBatch(c) ==
  LET q == cycles[c].queries IN
  /\ Len(processed') = Len(processed) + Len(q)
  /\ \A j \in 1..Len(processed) : processed'[j] = processed[j]
  /\ \A j \in 1..Len(q) :
       LET line == processed'[Len(processed) + j] IN
       /\ "processedAt" \in DOMAIN line
       /\ \A f \in DOMAIN q[j] : f \in DOMAIN line /\ line[f] = q[j][f]

\* C11: a drain cycle reads the whole pending file; whatever the outcome
\* of each language-model call and each send, it leaves the pending file
\* alone until its end, where it appends exactly the entries it read, in
\* file order and stamped, to the processed log and then empties the
\* pending file.
C11_DrainMovesBatch ==
  [][\A c \in Workers :
       /\ (Poll(c) /\ pending # << >>)
            => /\ cycles'[c].queries = pending /\ cycles'[c].pc = "llm"
               /\ pending' = pending /\ processed' = processed
       /\ \A ok \in BOOLEAN :
            (LlmResult(c, ok) \/ SendResult(c, ok))
              => /\ pending' = pending
                 /\ IF cycles'[c].pc = "clear" THEN MovedBatch(c)
                    ELSE processed' = processed
       /\ Clear(c)
            => /\ pending' = << >> /\ processed' = processed
               /\ cycles'[c].pc = "idle"]_vars

C11_Witness ==
  /\ pending = << >> /\ nextId = 2
  /\ Len(processed) = 2 /\ processed[1].id = 1 /\ processed[2].id = 2
  /\ \A c \in Workers : cycles[c].pc = "idle"
  /\ \E j \in 1..Len(sendLog) : ~sendLog[j].sent
\* C12: a drain that finds the pending file empty writes neither file,
\* starts no cycle, makes no language-model request and sends nothing.
C12_EmptyDrainNoOp ==
  [][\A c \in Workers :
       (Poll(c) /\ pending = << >>)
         => UNCHANGED << pending, processed, sendLog, cycles, config, apart,
                         now, callState, rateLimits, turns, nextId, notes,
                         pinOk, lastTurn, resp, log >>]_vars

C12_Witness ==
  /\ lastPoll = "empty"
  /\ pending = << >> /\ Len(processed) = 1 /\ Len(sendLog) = 1
  /\ \A c \in Workers : cycles[c].pc = "idle"
\* C13: a speech turn whose utterance is a goodbye is answered with a
\* spoken reply and a hangup and no listen prompt, its session is removed,
\* and while the call id has no session every callback for it gets the
\* session-error reply.
C13_GoodbyeEnds ==
  [][/\ (lastTurn' # lastTurn /\ lastTurn'.speech = "goodbye")
          => /\ lastTurn'.say # ""
             /\ resp' = Twiml("process-speech", lastTurn'.sid, lastTurn'.say,
                              "none", FALSE, FALSE, TRUE)
             /\ lastTurn'.sid \notin DOMAIN callState'
     /\ (lastTurn.speech = "goodbye" /\ lastTurn.sid \notin DOMAIN callState)
          => /\ \A u \in Speeches :
                  ProcessSpeech(lastTurn.sid, u)
                    => resp' = SessionError("process-speech", lastTurn.sid)
             /\ \A d \in MenuDigits :
                  SelectLanguage(lastTurn.sid, d)
                    => resp' = SessionError("select-language", lastTurn.sid)
             /\ \A dl \in BOOLEAN, t \in {"", "hola"} :
                  SaveVoicenote(lastTurn.sid, NumA, "7", dl, t, TRUE, TRUE)
                    => resp' = SessionError("save-voicenote", lastTurn.sid)]_vars

C13_Witness ==
  /\ lastTurn.speech = "goodbye" /\ lastTurn.sid = "CA1"
  /\ lastTurn.o1 = "timeout" /\ lastTurn.o2 = "reply"
  /\ "CA1" \notin DOMAIN callState
  /\ resp = SessionError("process-speech", "CA1")
\* The session-error reply: its text and a hangup, no gather, no record
\* and no redirect; and nothing but the response changes.
OnlySessionError(route) ==
  /\ resp'.route = route /\ resp'.sid = "CA1"
  /\ resp'.say = "Session error. Goodbye."
  /\ resp'.hangup /\ resp'.gather = "none" /\ ~resp'.record /\ ~resp'.redirect
  /\ log' = << >>
  /\ UNCHANGED << config, apart, now, callState, rateLimits, turns, pending,
                  nextId, notes, cycles, processed, sendLog, pinOk, lastTurn,
                  lastPoll >>

\* C14: a callback (PIN verification, menu selection, recording completion,
\* speech turn) for a call id that has no session is answered with the
\* session-error reply and a hangup, and changes nothing: no session, no
\* counter, no language-model request, no queue entry, no note.
C14_NoSessionNoEffect ==
  [][("CA1" \notin DOMAIN callState) =>
       /\ \A d \in PinDigits, n \in Froms :
            VerifyPin("CA1", d, n) => OnlySessionError("verify-pin")
       /\ \A d \in MenuDigits :
            SelectLanguage("CA1", d) => OnlySessionError("select-language")
       /\ \A dl \in BOOLEAN, t \in {"", "hola"} :
            SaveVoicenote("CA1", NumA, "7", dl, t, TRUE, TRUE)
              => OnlySessionError("save-voicenote")
       /\ \A u \in Speeches :
            ProcessSpeech("CA1", u) => OnlySessionError("process-speech")]_vars

C14_Witness ==
  /\ resp.route = "save-voicenote" /\ resp.say = "Session error. Goodbye."
  /\ "CA1" \notin DOMAIN callState
  /\ pinOk # {} /\ notes = << >>
\* A reply that ends the call: it speaks and hangs up, with nothing for the
\* caller to answer and nowhere for the carrier to go on.
TerminalReply ==
  /\ resp.route \in {"verify-pin", "select-language", "save-voicenote",
                     "process-speech"}
  /\ resp.hangup /\ resp.gather = "none" /\ ~resp.record /\ ~resp.redirect

\* C15: once a call has ended (maximum PIN attempts, goodbye, the terminal
\* reply after a voice note), its call id is no longer in the session
\* store.
C15_EndedCallDestroyed ==
  TerminalReply => resp.sid \notin DOMAIN callState
\* C16: no console line written by the webhook server carries a PIN of the
\* allowlist.
C16_NoPinInLog ==
  \A j \in 1..Len(log) :
    \A i \in 1..Len(allowedNumbers) : allowedNumbers[i].pin \notin log[j].strs
NameOf(n) == (CHOOSE e \in {allowedNumbers[i] : i \in 1..Len(allowedNumbers)} :
                e.number = n).name

\* Whether the gate lets a call from n through: the number is listed and
\* its counter is below the ceiling or its window has lapsed.
PassesGate(n) ==
  /\ n \in Listed
  /\ ~(/\ n \in DOMAIN rateLimits
       /\ now <= rateLimits[n].resetTime
       /\ rateLimits[n].count >= config.rateLimitPerHour)

\* C18: an inbound call that passes the gate creates the session of its
\* call id with no attempts, the caller's number and the caller's name of
\* the allowlist, and is answered with the PIN gather; a rejected inbound
\* call leaves the session store as it was.
C18_AcceptedCallCreatesSession ==
  [][\A s \in Sids, n \in Callers :
       Incoming(s, n) =>
         IF PassesGate(n)
         THEN /\ s \in DOMAIN callState'
              /\ callState'[s].attempts = 0
              /\ callState'[s].callerNumber = n
              /\ callState'[s].name = NameOf(n)
              /\ callState'[s].lang = Undefined /\ callState'[s].mode = Undefined
              /\ \A o \in DOMAIN callState' \ {s} :
                   o \in DOMAIN callState /\ callState'[o] = callState[o]
              /\ resp'.route = "incoming" /\ resp'.sid = s /\ resp'.gather = "pin"
         ELSE /\ callState' = callState
              /\ resp'.gather = "none" /\ resp'.hangup]_vars

C18_Witness ==
  /\ resp.route = "incoming" /\ resp.sid = "CA2" /\ resp.gather = "pin"
  /\ DOMAIN callState = {"CA1", "CA2"}
  /\ callState["CA2"] = [attempts |-> 0, callerNumber |-> NumA, name |-> "Ana",
                         lang |-> Undefined, mode |-> Undefined]
  /\ callState["CA1"].attempts = 2
C20_MenuTimeoutStartsConversation ==
  resp.route = MenuRedirect
    => /\ resp.gather = "speech"
       /\ resp.sid \in DOMAIN callState
       /\ callState[resp.sid].lang = "en"
\* C21: at the menu, the digit that is the configured voice-note key puts
\* the session in voice-note mode and nothing else of it changes (its
\* language stays unset), and the reply holds a record directive whose
\* maximum length is the configured one, with no PIN gather and no menu
\* gather.
C21_VoiceNoteKeyRecords ==
  [][(/\ resp'.route = "select-language"
      /\ "CA1" \in DOMAIN callState
      /\ SelectLanguage("CA1", voiceNoteKey))
       => /\ callState' = [callState EXCEPT !["CA1"].mode = "voicenote"]
          /\ callState["CA1"].lang = Undefined
               => callState'["CA1"].lang = Undefined
          /\ resp'.sid = "CA1" /\ resp'.record
          /\ resp'.maxLength = voiceNotes.maxLengthSeconds
          /\ resp'.gather = "none" /\ ~resp'.redirect]_vars

C21_Witness ==
  /\ resp.route = "select-language" /\ resp.record /\ resp.maxLength = 60
  /\ "CA1" \in pinOk /\ "CA1" \in DOMAIN callState
  /\ callState["CA1"].mode = "voicenote" /\ callState["CA1"].lang = Undefined
\* The two replies of save-voicenote.
NoteSaved == "Your voice note has been saved and transcribed."
NoteError == "There was an error saving it."

\* C22: on a recording-completion event for a live session the reply
\* speaks and hangs up, and when a step of the pipeline failed (the audio
\* download or write, the transcription request, the metadata append, the
\* transcript write) it is the apology, never the confirmation.
C22_FailureApologizes ==
  [][\A dl \in BOOLEAN, t \in Transcriptions, nt \in BOOLEAN, tx \in BOOLEAN :
       (/\ resp'.route = "save-voicenote"
        /\ "CA1" \in DOMAIN callState
        /\ SaveVoicenote("CA1", NumA, "7", dl, t, nt, tx))
         => /\ resp'.say # "" /\ resp'.hangup
            /\ (~dl \/ t \in {HttpError, Rejected} \/ ~nt
                  \/ (t = "hola" /\ ~tx))
                 => resp'.say = NoteError]_vars
\* C23: when the download and every file write of a voice note succeed,
\* one note record is appended to the metadata log whatever the
\* transcription request gave; it has the caller and the duration of the
\* recording-completion event, status transcribed and a non-empty
\* transcript when the transcription gave a text, status pending
\* otherwise.
C23_NoteRecordWritten ==
  [][\A t \in Transcriptions :
       (/\ resp'.route = "save-voicenote"
        /\ "CA1" \in DOMAIN callState
        /\ SaveVoicenote("CA1", NumA, "7", TRUE, t, TRUE, TRUE))
         => /\ Len(notes') = Len(notes) + 1
            /\ \A j \in 1..Len(notes) : notes'[j] = notes[j]
            /\ LET note == notes'[Len(notes')] IN
               /\ note.caller = NumA /\ note.duration = 7
               /\ IF t = "hola"
                  THEN note.status = "transcribed" /\ note.transcription = "hola"
                  ELSE note.status = "pending"]_vars
\* C24: an inbound call from a number that is not in the allowlist is
\* rejected as unauthorized (the not-authorized message, the unauthorized
\* log line), however many calls the number made in the current window.
C24_UnlistedIsUnauthorized ==
  [][\A s \in Sids, n \in Callers :
       (n \notin Listed /\ Incoming(s, n))
         => /\ resp'.say = NotAuthorized
            /\ resp'.hangup /\ resp'.gather = "none"
            /\ \E j \in 1..Len(log') : log'[j].action = "unauthorized"]_vars
\* C25: the code getLanguageCode returns for a provider name and a
\* language is the entry of that provider's table for that language; it is
\* never the language handed back because the provider or the language
\* has no entry.
C25_CodeFromProviderTable ==
  \A p \in ProviderNames :
    langCodes[p] # NoLookup
      => /\ p \in DOMAIN langMap
         /\ langCodes[p].lang \in DOMAIN langMap[p]
         /\ langCodes[p].code = langMap[p][langCodes[p].lang]
\* C26: an utterance that is a task request is appended to the queue
\* directly and not answered inline: no language-model request is issued
\* for it while the caller waits.
C26_TaskQueuedDirectly ==
  /\ \A k \in Slots : turns[k].pc # "idle" => turns[k].speech # TaskSpeech
  /\ lastTurn.speech = TaskSpeech
       => lastTurn.reqs = 0 /\ lastTurn.appended = 1
\* C27: a PIN callback authenticates a session only when its digits are
\* present and equal to the PIN the allowlist binds to the caller number
\* that opened the session; missing digits, or a callback that names
\* another number or an unlisted one, never authenticate.
C27_PinBoundToSession ==
  [][\A s \in Sids, d \in PinDigits, n \in Froms :
       (/\ resp'.route = "verify-pin" /\ resp'.gather = "menu"
        /\ s \in DOMAIN callState
        /\ VerifyPin(s, d, n))
         => /\ d # Undefined
            /\ n = callState[s].callerNumber
            /\ d = PinOf(callState[s].callerNumber)]_vars
\* C28: while a call id has a session its attempt count never decreases,
\* and it changes only by a wrong PIN submission for that call id, which
\* adds one; every other event, a repeated inbound-call event for the call
\* id included, leaves it as it was.
C28_AttemptsOnlyByPin ==
  [][\A s \in Sids :
       (s \in DOMAIN callState /\ s \in DOMAIN callState')
         => /\ callState'[s].attempts >= callState[s].attempts
            /\ callState'[s].attempts # callState[s].attempts
                 => /\ resp'.route = "verify-pin" /\ resp'.sid = s
                    /\ resp'.gather = "pin"
                    /\ callState'[s].attempts = callState[s].attempts + 1]_vars
\* The session of a call id: the set of the one object the store holds for
\* it, empty when it holds none.
SessionOf(store, s) == IF s \in DOMAIN store THEN {store[s]} ELSE {}

\* C29: the events of one call id are handled one after the other: while
\* a speech turn of a call id is suspended on the language model, no other
\* event of that call id is answered and its session is neither looked up
\* anew nor changed.
C29_SequentialWithinCall ==
  [][\A k \in Slots :
       (turns[k].pc # "idle" /\ turns'[k].pc = turns[k].pc)
         => /\ resp'.sid = turns[k].sid => resp' = resp
            /\ SessionOf(callState', turns[k].sid)
                 = SessionOf(callState, turns[k].sid)]_vars
\* Whether this step handles an event of call id t: a callback for t
\* arrives, or a suspended handler of t goes on.
EventOf(t) ==
  \/ \E d \in {"1", voiceNoteKey} : SelectLanguage(t, d)
  \/ \E u \in Speeches : ProcessSpeech(t, u)
  \/ SaveStart(t, FromOf[t], "7")
  \/ saving.sid = t /\ \E dl \in BOOLEAN : SaveEnd(dl, "hola", TRUE, TRUE)
  \/ \E k \in Slots, o \in {"reply", "error"} : turns[k].sid = t /\ Groq1(k, o)

\* C30: calls are independent: handling an event of one call id leaves
\* the session of every other call id as it was, and while a speech turn
\* or a voice-note save of one call id is suspended on its provider, a
\* callback of another call id can be handled.
C30_CallsIndependent ==
  [][\A s \in Sids :
       /\ \A t \in Sids \ {s} :
            EventOf(t) => SessionOf(callState', s) = SessionOf(callState, s)
       /\ ((\E k \in Slots : turns[k].pc # "idle" /\ turns[k].sid # s)
             \/ (saving.pc # "idle" /\ saving.sid # s))
            => ENABLED SelectLanguage(s, "1")]_vars

C30_Witness ==
  /\ turns[1].pc = "attempt1" /\ turns[1].sid = "CA1"
  /\ resp.route = "save-voicenote" /\ resp.sid = "CA2" /\ resp.say = NoteSaved
  /\ Len(notes) = 1 /\ notes[1].callSid = "CA2"
  /\ log[Len(log)].action = "voice_note_saved"
  /\ DOMAIN callState = Sids

(***************************************************************************)
(* C31: every provider request a handler or a drain cycle waits for (the   *)
(* language model in a call, the re-run of the drain, the download, the    *)
(* transcription, the notification send) was issued with a timeout that    *)
(* aborts it, and the second language-model request of a turn is issued    *)
(* only once the first was aborted.                                        *)
(***************************************************************************)
C31_RequestsBounded ==
  /\ \A r \in PendingRequests : RequestTimeoutMs[r] > 0
  /\ \A k \in Slots : turns[k].pc = "attempt2" => turns[k].o1 = "timeout"

(***************************************************************************)
(* C32: a drain cycle hands an entry to a sender only after the re-run of  *)
(* that entry succeeded, and then to one sender: the one the configured    *)
(* method names (the default when no method is configured).  When the      *)
(* method names no sender, or the re-run failed, nothing is sent, and the  *)
(* cycle still moves every entry of its batch to the processed log.        *)
(***************************************************************************)
C32_SendOnlyOnSuccess ==
  [][\A c \in Workers :
       /\ \A ok \in BOOLEAN :
            LlmResult(c, ok) =>
              /\ sendLog' = sendLog
              /\ cycles'[c].pc = "send" <=> ok
       /\ \A s \in BOOLEAN :
            SendResult(c, s) =>
              LET e == sendLog'[Len(sendLog')] IN
              /\ Len(sendLog') = Len(sendLog) + 1
              /\ e.id = cycles[c].queries[cycles[c].i].id
              /\ e.via \in senders \cup {Undefined}
              /\ e.via # Undefined =>
                   e.via = (IF config.method = Undefined THEN "telegram"
                            ELSE config.method)
              /\ config.method \notin senders \cup {Undefined} =>
                   e.via = Undefined /\ ~e.sent
       /\ sendLog' # sendLog => \E d \in Workers : cycles[d].pc = "send"
       /\ (cycles[c].pc # "clear" /\ cycles'[c].pc = "clear") =>
            \A j \in 1..Len(cycles[c].queries) :
              cycles[c].queries[j].id \in Ids(processed')]_vars

C32_Witness ==
  /\ config.method = "fax"
  /\ Len(sendLog) = 1 /\ sendLog[1].via = Undefined /\ ~sendLog[1].sent
  /\ pending = << >> /\ Ids(processed) = {sendLog[1].id}
  /\ \A c \in Workers : cycles[c].pc = "idle"

(***************************************************************************)
(* C33: the counter of every number in the rate-limit table lies between 1 *)
(* and the configured ceiling; a call that passes the rate-limit check     *)
(* either opens a window with the counter at 1 or raises the counter of    *)
(* the running window by one, and nothing else changes a counter: so no    *)
(* more than ceiling calls of a number pass within one window.             *)
(***************************************************************************)
C33_CounterWithinCeiling ==
  [][\A n \in Callers :
       /\ n \in DOMAIN rateLimits' =>
            /\ rateLimits'[n].count >= 1
            /\ rateLimits'[n].count <= config.rateLimitPerHour
       /\ \A s \in Sids :
            (resp'.route = "incoming" /\ Incoming(s, n)) =>
              IF resp'.say = TooManyCalls
              THEN rateLimits' = rateLimits
              ELSE IF n \in DOMAIN rateLimits
                      /\ rateLimits'[n].resetTime = rateLimits[n].resetTime
              THEN rateLimits'[n].count = rateLimits[n].count + 1
              ELSE rateLimits'[n].count = 1
       /\ (\A s \in Sids : ~Incoming(s, n)) =>
            /\ n \in DOMAIN rateLimits' <=> n \in DOMAIN rateLimits
            /\ n \in DOMAIN rateLimits => rateLimits'[n] = rateLimits[n]]_vars

C33_Witness ==
  /\ config.rateLimitPerHour = MaxRateLimit
  /\ NumA \in DOMAIN rateLimits
  /\ rateLimits[NumA] = [count |-> MaxRateLimit, resetTime |-> RateWindowMs]
  /\ now = RateWindowMs
  /\ resp.route = "incoming" /\ resp.say = TooManyCalls /\ resp.sid = "CA2"
  /\ DOMAIN callState = {"CA1"}

(***************************************************************************)
(* C34: an inbound call of a number whose window has lapsed (the clock is  *)
(* past the reset time) passes the rate-limit check whatever the old       *)
(* count, and leaves the count at 1 with a window that starts at the call; *)
(* a call at or before the reset time leaves the window alone and is       *)
(* counted in it, or refused when the count is at the ceiling.             *)
(***************************************************************************)
C34_WindowResetsByLapse ==
  [][\A s \in Sids, n \in Callers :
       (resp'.route = "incoming" /\ n \in DOMAIN rateLimits /\ Incoming(s, n)) =>
         IF now > rateLimits[n].resetTime
         THEN /\ rateLimits'[n] = [count |-> 1, resetTime |-> now + RateWindowMs]
              /\ resp'.say # TooManyCalls
         ELSE /\ rateLimits'[n].resetTime = rateLimits[n].resetTime
              /\ IF rateLimits[n].count >= config.rateLimitPerHour
                 THEN /\ resp'.say = TooManyCalls
                      /\ rateLimits'[n].count = rateLimits[n].count
                 ELSE /\ resp'.say # TooManyCalls
                      /\ rateLimits'[n].count = rateLimits[n].count + 1]_vars

C34_Witness ==
  /\ config.rateLimitPerHour = 1
  /\ now = 2 * RateWindowMs
  /\ NumA \in DOMAIN rateLimits
  /\ rateLimits[NumA] = [count |-> 1, resetTime |-> 3 * RateWindowMs]
  /\ DOMAIN callState = Sids
  /\ resp.route = "incoming" /\ resp.gather = "pin"

(***************************************************************************)
(* C35: once the session of a call id holds a language, no event changes   *)
(* it for as long as the call id has a session.                            *)
(***************************************************************************)
C35_LanguageSetOnce ==
  [][\A s \in Sids :
       (/\ s \in DOMAIN callState
        /\ callState[s].lang # Undefined
        /\ s \in DOMAIN callState')
         => callState'[s].lang = callState[s].lang]_vars

(***************************************************************************)
(* C36: the text put into the <Say> verb for a reply of the language model *)
(* has at most 1000 characters, holds no '<', '>', '"' or apostrophe, and  *)
(* every '&' in it is the first character of a whole entity, also when the *)
(* text was cut at the limit.                                              *)
(***************************************************************************)
C36_SpokenTextEscaped ==
  LET text == spoken.text IN
  /\ Length(text) <= SayLimit
  /\ \A j \in 1..Len(text) : text[j].c \notin Specials \ {"&"}
  /\ \A j \in 1..Len(text) :
       text[j].c = "&" =>
         \E c \in Specials :
           /\ j + Len(Entity(c)) - 1 <= Len(text)
           /\ \A i \in 1..Len(Entity(c)) :
                text[j + i - 1] = Run(Entity(c)[i], 1)

C39_AttemptsBelowMax ==
  /\ \A s \in DOMAIN callState :
       callState[s].attempts >= 0 /\ callState[s].attempts < maxAttempts
  /\ (resp.route = "verify-pin" /\ resp.gather = "pin") => resp.remaining >= 1

C39_Witness ==
  /\ resp.route = "verify-pin" /\ resp.gather = "pin" /\ resp.remaining = 1
  /\ resp.sid \in DOMAIN callState
  /\ callState[resp.sid].attempts = maxAttempts - 1

(***************************************************************************)
(* C38: when a speech turn whose utterance is no goodbye is answered,      *)
(* whatever became of its language-model requests, the reply speaks a text *)
(* and gathers speech again, and the session store is as it was: the       *)
(* session of the call id is still there with its attempts and language.   *)
(***************************************************************************)
C38_TurnListensAgain ==
  [][\A k \in Slots :
       (/\ turns[k].pc # "idle" /\ turns'[k].pc = "idle"
        /\ turns[k].live
        /\ ~IsGoodbye(turns[k].speech))
         => /\ resp'.route = "process-speech" /\ resp'.sid = turns[k].sid
            /\ resp'.say # ""
            /\ resp'.gather = "speech"
            /\ turns[k].sid \in DOMAIN callState'
            /\ callState' = callState]_vars

(***************************************************************************)
(* C40: at every point of a drain cycle, every entry the cycle has read is *)
(* in the pending file or in the processed log: were the worker to stop    *)
(* there, no entry it had read would be in neither.                        *)
(***************************************************************************)
C40_ReadEntriesKept ==
  \A c \in Workers :
    \A j \in 1..Len(cycles[c].queries) :
      cycles[c].queries[j].id \in Ids(pending) \cup Ids(processed)
====
